---- MODULE Spec2Model ----
(***************************************************************************)
(* Model of .github/scripts/copilot_test_gen.py: the test-generation       *)
(* driver (change detection, provider call, output sanitizing, test-file   *)
(* materialization, pytest validation, coverage-gap phase, commit or       *)
(* rollback).                                                              *)
(*                                                                         *)
(* Texts are sequences of lexical units (a keyword, a blank, a newline, a  *)
(* fence marker, ...); the string operations of the script (strip,         *)
(* splitlines, re.search, re.match, replace, join, in) are computed on     *)
(* those sequences.                                                        *)
(***************************************************************************)
EXTENDS Integers, Sequences, FiniteSets, TLC

-----------------------------------------------------------------------------
(* Bounds of the model *)

\* longest provider text, in lexical units, of the sanitizer specification
MaxRaw == 4

\* test_mathops.py, test_mathops_1.py, ...: how many of these names may be
\* taken in tests/ before the run
MaxPre == 1
\* directory components of a location given to the path resolver
MaxDepth == 2
\* lines of a provider text of the line-wise sanitizer specification
MaxLines == 3
\* concurrent approve_pipeline requests of the web service specification
MaxReq == 2

-----------------------------------------------------------------------------
(* Lexical units *)

SP == " "
NL == "<NL>"
FENCE == "<fence>"
TQ == "<3dq>"
TQ1 == "<3sq>"

IsSpace(c) == c \in {SP, NL}

\* re.IGNORECASE of the noise pattern: units are compared in lower case
Lower(c) == IF c = "HTTP" THEN "http" ELSE IF c = "Cop" THEN "cop" ELSE c

LowerText(t) == [i \in 1..Len(t) |-> Lower(t[i])]

-----------------------------------------------------------------------------
(* String operations *)

RECURSIVE LStrip(_)
LStrip(t) ==
    IF t = <<>> THEN <<>>
    ELSE IF IsSpace(Head(t)) THEN LStrip(Tail(t)) ELSE t

RECURSIVE RStrip(_)
RStrip(t) ==
    IF t = <<>> THEN <<>>
    ELSE IF IsSpace(t[Len(t)]) THEN RStrip(SubSeq(t, 1, Len(t) - 1)) ELSE t

\* str.strip()
Strip(t) == RStrip(LStrip(t))

\* str.startswith(p)
StartsWith(t, p) == Len(t) >= Len(p) /\ SubSeq(t, 1, Len(p)) = p

\* p in t
Contains(t, p) ==
    \E i \in 1..(Len(t) - Len(p) + 1) : SubSeq(t, i, i + Len(p) - 1) = p

FirstNL(t) ==
    IF \E i \in 1..Len(t) : t[i] = NL
    THEN CHOOSE i \in 1..Len(t) : t[i] = NL /\ \A j \in 1..(i - 1) : t[j] # NL
    ELSE 0

\* str.splitlines(): no empty last line after a final newline
RECURSIVE SplitLines(_)
SplitLines(t) ==
    IF t = <<>> THEN <<>>
    ELSE IF FirstNL(t) = 0 THEN <<t>>
    ELSE <<SubSeq(t, 1, FirstNL(t) - 1)>>
             \o SplitLines(SubSeq(t, FirstNL(t) + 1, Len(t)))

\* newline.join(lines)
RECURSIVE JoinLines(_)
JoinLines(ls) ==
    IF ls = <<>> THEN <<>>
    ELSE IF Len(ls) = 1 THEN ls[1]
    ELSE ls[1] \o <<NL>> \o JoinLines(Tail(ls))

\* str.replace(p, empty): leftmost non-overlapping occurrences are removed
RECURSIVE RemoveAll(_, _)
RemoveAll(t, p) ==
    IF Len(t) < Len(p) THEN t
    ELSE IF StartsWith(t, p) THEN RemoveAll(SubSeq(t, Len(p) + 1, Len(t)), p)
    ELSE <<Head(t)>> \o RemoveAll(Tail(t), p)

-----------------------------------------------------------------------------
(* The sanitizer of generate_tests_with_copilot *)

\* (deprecation|announcement|copilot|visit|information|http|github\.com)
NoiseWords ==
    { <<"deprecation">>, <<"announcement">>, <<"cop", "ilot">>, <<"visit">>,
      <<"information">>, <<"http">>, <<"github.com">> }

HasNoise(ls) == \E w \in NoiseWords : Contains(LowerText(ls), w)

\* ^(import |from |def |class |@|assert|if |for |while |try|except|with |return|#)
KeepPrefixes ==
    { <<"import", SP>>, <<"from", SP>>, <<"def", SP>>, <<"class", SP>>,
      <<"@">>, <<"assert">>, <<"if", SP>>, <<"for", SP>>, <<"while", SP>>,
      <<"try">>, <<"except">>, <<"with", SP>>, <<"return">>, <<"#">> }

KeepMatch(ls) == \E p \in KeepPrefixes : StartsWith(ls, p)

\* line_stripped.startswith((four blanks, three double quotes, three single quotes))
QuoteOrIndent(ls) ==
    \E p \in { <<SP, SP, SP, SP>>, <<TQ>>, <<TQ1>> } : StartsWith(ls, p)

\* the loop over raw_lines
RECURSIVE CleanLines(_)
CleanLines(raw_lines) ==
    IF raw_lines = <<>> THEN <<>>
    ELSE LET line == Head(raw_lines)
             line_stripped == Strip(line)
             rest == CleanLines(Tail(raw_lines))
         IN  IF HasNoise(line_stripped) THEN rest
             ELSE IF line_stripped = <<>> THEN rest
             ELSE IF KeepMatch(line_stripped) THEN <<line_stripped>> \o rest
             ELSE IF QuoteOrIndent(line_stripped) THEN <<line>> \o rest
             ELSE rest

StripFences(t) == RemoveAll(RemoveAll(t, <<FENCE, "python">>), <<FENCE>>)

\* result -> cleaned
Sanitize(result) ==
    Strip(StripFences(JoinLines(CleanLines(SplitLines(Strip(result))))))

\* not (not cleaned or def test_ not in cleaned)
Usable(cleaned) == cleaned # <<>> /\ Contains(cleaned, <<"def", SP, "test_">>)

-----------------------------------------------------------------------------
(* Files of the working tree *)

\* a file location relative to BASE: directory components, stem, extension
File(d, s, e) == [dir |-> d, stem |-> s, ext |-> e]

MathOps == File(<<"src">>, "mathops", "py")
PkgMathOps == File(<<"src", "pkg">>, "mathops", "py")
TestsHelper == File(<<"src", "tests">>, "helper", "py")
SetupPy == File(<<>>, "setup", "py")
Readme == File(<<>>, "README", "md")
\* a directory beside src/ whose name begins with src
Src2Extra == File(<<"src2">>, "extra", "py")

\* every location the model knows, in directory-walk order
Universe == <<MathOps, PkgMathOps, TestsHelper, Src2Extra, SetupPy, Readme>>

SrcCandidates == {MathOps, PkgMathOps, TestsHelper}
RootFiles == {SetupPy, Readme}
\* the files outside src/ that every tree of the model has
OutsideSrc == RootFiles \cup {Src2Extra}

SeqOf(S) == SelectSeq(Universe, LAMBDA f : f \in S)

\* the components of str(f) below BASE
Components(f) == f.dir \o <<f.stem>>

\* "tests" in str(f)
TestsInStr(f) == \E i \in 1..Len(Components(f)) : Components(f)[i] \in {"tests"}

\* str(f).startswith(str(SRC)): the first component below BASE starts with src
StartsWithSrc(f) == Head(Components(f)) \in {"src", "src2"}

\* SRC.rglob("*.py")
Rglob(tr) == SeqOf({f \in tr : f.dir # <<>> /\ Head(f.dir) = "src" /\ f.ext = "py"})

\* variant: a location outside BASE keeps its directories
rel_to_base_KeepsDir(underBase, f) == Components(f)

\* abs_fp.relative_to(BASE); Path(abs_fp.name) when that raises ValueError
rel_to_base(underBase, f) == IF underBase THEN Components(f) ELSE <<f.stem>>

\* if not mod.startswith("src."): mod = "src." + mod
SrcPrefixed(m) == IF Len(m) >= 2 /\ Head(m) = "src" THEN m ELSE <<"src">> \o m

\* module_import_path of a location under BASE or not: the dotted module
\* identifier, as its components
module_import_path_at(underBase, f) == SrcPrefixed(rel_to_base(underBase, f))

\* module_import_path of a file of the working tree
module_import_path(f) == module_import_path_at(TRUE, f)

\* a file of tests/: test_<stem>.py (n = 0) or test_<stem>_<n>.py
TestPath(s, k) == [stem |-> s, n |-> k]

\* variant: the while loop is missing, the first candidate name is returned
NextFree_NoLoop(stem, counter, dir) == TestPath(stem, counter)

RECURSIVE NextFree(_, _, _)
NextFree(stem, counter, dir) ==
    IF TestPath(stem, counter) \notin dir THEN TestPath(stem, counter)
    ELSE NextFree(stem, counter + 1, dir)

\* variant: always the canonical name, whether or not it exists
get_next_test_filename_Canonical(stem, dir) == TestPath(stem, 0)

\* get_next_test_filename, dir being the files that exist in tests/
get_next_test_filename(stem, dir) == NextFree(stem, 0, dir)

-----------------------------------------------------------------------------
(* Texts of the driver *)

\* the dotted module identifier as text
RECURSIVE Dotted(_)
Dotted(mod) ==
    IF Len(mod) <= 1 THEN mod ELSE <<Head(mod), ".">> \o Dotted(Tail(mod))

\* the placeholder suite written when the cleaned text is unusable
Placeholder(mod_path) ==
    <<NL, "import", SP, "pytest", NL, "from", SP>> \o Dotted(mod_path)
        \o <<SP, "import", SP, "*", NL, NL,
             "def", SP, "test_", "placeholder", NL,
             SP, SP, SP, SP, "assert", SP, "True", NL>>

\* provider answers of the driver specification
SuiteText ==
    <<"def", SP, "test_", "add", NL, SP, SP, SP, SP, "assert", SP, "x">>
ProseText == <<"Sure", SP, "here", SP, "are", SP, "tests">>
ProviderTexts == {SuiteText, ProseText, <<>>}

\* provider answers to a single-function request: a suite for that function,
\* prose, or nothing
TargetedSuite(func) ==
    <<"def", SP, "test_", func, "_edge", NL, SP, SP, SP, SP, "assert", SP, "y">>
TargetedTexts(func) == {TargetedSuite(func), ProseText, <<>>}

\* exit codes of a failing child process
FailCodes == {1, 127}

\* gh copilot suggest --help: which flag its output documents; legacy stands
\* for neither, an old CLI or no suggestion back-end at all (empty output)
HelpTexts == {"--prompt", "-p", "legacy"}

\* top-level functions of a module, by name, with the lines they span
FunctionsOf(f) ==
    IF f = MathOps
    THEN <<[name |-> "add", first |-> 16, last |-> 18],
           [name |-> "divide", first |-> 21, last |-> 25]>>
    ELSE IF f = PkgMathOps
    THEN <<[name |-> "mean", first |-> 54, last |-> 58]>>
    ELSE <<>>

\* sets of unexecuted lines a coverage run may report for a file
MissingChoices == {{}, {23}}

-----------------------------------------------------------------------------
(* State *)

VARIABLES
    pc,         \* position of the script: start, fallback, phaseA, ... , exit
    exitCode,   \* exit status of the process, -1 while it runs
    tree,       \* regular files of the working tree outside tests/
    testsDir,   \* tests/: test path -> content
    preexisting,\* the test paths that existed before the run
    changed,    \* the list changed of __main__
    how,        \* how changed was found: diff, scan or fallback
    generated,  \* the list generated of __main__
    idx,        \* position of the current for loop over changed / generated
    uncovered,  \* the list uncovered of the coverage-gap loop
    fidx,       \* position of the loop over uncovered
    validated,  \* result of run_pytest: none, pass, fail
    cov,        \* the coverage data store left by pytest
    cmd,        \* the local cmd of generate_tests_with_copilot while the
                \* process is inside it, none otherwise
    log,        \* external effects so far, in order
    result,     \* sanitizer specification: provider text
    cleaned,    \* sanitizer specification: sanitized text
    again,      \* sanitizer specification: sanitized text, sanitized again
    stage,      \* sanitizer specification: position
    file_path,  \* path resolver specification: the location given
    resolved,   \* path resolver specification: what the call produced
    pstage,     \* path resolver specification: position
    db_pipelines,   \* web service: the pipelines collection, by id
    approval,       \* web service: the body and path of each request
    apc,            \* web service: each request's position in approve_pipeline
    pipeline,       \* web service: each request's local pipeline
    response,       \* web service: each request's HTTP status, 0 while running
    decisions       \* web service: the updates applied to the collection

driverVars ==
    <<pc, exitCode, tree, testsDir, preexisting, changed, how, generated, idx,
      uncovered, fidx, validated, cov, cmd, log>>
sanVars == <<result, cleaned, again, stage>>
pathVars == <<file_path, resolved, pstage>>
apprVars == <<db_pipelines, approval, apc, pipeline, response, decisions>>
vars == <<driverVars, sanVars, pathVars, apprVars>>

NoCov == [loadable |-> FALSE, measured |-> {}, missing |-> <<>>]

OldText == <<"def", SP, "test_", "old">>

DriverInit ==
    /\ pc = "start"
    /\ exitCode = -1
    /\ \E T \in SUBSET SrcCandidates : tree = T \cup OutsideSrc
    /\ \E P \in SUBSET {TestPath("mathops", k) : k \in 0..(MaxPre - 1)} :
          /\ preexisting = P
          /\ testsDir = [p \in P |-> OldText]
    /\ changed = <<>>
    /\ how = "none"
    /\ generated = <<>>
    /\ idx = 1
    /\ uncovered = <<>>
    /\ fidx = 1
    /\ validated = "none"
    /\ cov = NoCov
    /\ cmd = "none"
    /\ log = <<>>

SanIdle ==
    /\ result = <<>>
    /\ cleaned = <<>>
    /\ again = <<>>
    /\ stage = "idle"

NoResult == [error |-> "none", mod |-> <<>>]

PathIdle ==
    /\ file_path = [underBase |-> TRUE, file |-> [dir |-> <<>>, stem |-> "", ext |-> ""]]
    /\ resolved = NoResult
    /\ pstage = "idle"

ApprIdle ==
    /\ db_pipelines = <<>>
    /\ approval = <<>>
    /\ apc = <<>>
    /\ pipeline = <<>>
    /\ response = <<>>
    /\ decisions = <<>>

Init == DriverInit /\ SanIdle /\ PathIdle /\ ApprIdle

Ev(o, a, r) == [op |-> o, arg |-> a, rc |-> r]

Exit(code) ==
    /\ pc' = "exit"
    /\ exitCode' = code

-----------------------------------------------------------------------------
(* Change detection *)

\* the filter of get_changed_files
Eligible(files, tr) ==
    SelectSeq(files, LAMBDA f :
        f \in tr /\ ~TestsInStr(f) /\ StartsWithSrc(f))

\* variant: without a merge base nothing is enumerated
GetChangedFiles_NoScan ==
    /\ pc = "start"
    /\ \E base \in BOOLEAN, diff \in SUBSET {MathOps, PkgMathOps, TestsHelper, Src2Extra, SetupPy, Readme} :
          /\ ~base => diff = {}
          /\ LET files == IF ~base THEN <<>>
                          ELSE SeqOf({f \in diff : f.ext = "py"})
             IN  /\ changed' = Eligible(files, tree)
                 /\ how' = IF base THEN "diff" ELSE "scan"
                 /\ log' = log \o <<Ev("git", "fetch", 0), Ev("git", "merge-base", 0)>>
                              \o (IF base THEN <<Ev("git", "diff", 0)>> ELSE <<>>)
    /\ pc' = IF changed' = <<>> THEN "fallback" ELSE "phaseA"
    /\ idx' = 1
    /\ UNCHANGED <<exitCode, tree, testsDir, preexisting, generated, uncovered,
                   fidx, validated, cov, cmd, sanVars, pathVars,
                   apprVars>>

\* get_changed_files: base is whether git merge-base printed a commit, diff
\* the files git diff --name-only lists
GetChangedFiles ==
    /\ pc = "start"
    /\ \E base \in BOOLEAN, diff \in SUBSET {MathOps, PkgMathOps, TestsHelper, Src2Extra, SetupPy, Readme} :
          /\ ~base => diff = {}
          /\ LET files == IF ~base THEN Rglob(tree)
                          ELSE SeqOf({f \in diff : f.ext = "py"})
             IN  /\ changed' = Eligible(files, tree)
                 /\ how' = IF base THEN "diff" ELSE "scan"
                 /\ log' = log \o <<Ev("git", "fetch", 0), Ev("git", "merge-base", 0)>>
                              \o (IF base THEN <<Ev("git", "diff", 0)>> ELSE <<>>)
    /\ pc' = IF changed' = <<>> THEN "fallback" ELSE "phaseA"
    /\ idx' = 1
    /\ UNCHANGED <<exitCode, tree, testsDir, preexisting, generated, uncovered,
                   fidx, validated, cov, cmd, sanVars, pathVars,
                   apprVars>>

\* variant: no sys.exit(0) when the full scan is empty too
ForceFullScan_NoExit ==
    /\ pc = "fallback"
    /\ changed' = Rglob(tree)
    /\ how' = "fallback"
    /\ pc' = IF changed' = <<>> THEN "validate" ELSE "phaseA"
    /\ UNCHANGED <<exitCode, tree, testsDir, preexisting, generated, idx,
                   uncovered, fidx, validated, cov, cmd, log, sanVars, pathVars,
                   apprVars>>

\* __main__, if not changed: full scan of src/, exit 0 when it is empty too
ForceFullScan ==
    /\ pc = "fallback"
    /\ changed' = Rglob(tree)
    /\ how' = "fallback"
    /\ IF changed' = <<>> THEN Exit(0) ELSE pc' = "phaseA" /\ exitCode' = exitCode
    /\ UNCHANGED <<tree, testsDir, preexisting, generated, idx, uncovered, fidx,
                   validated, cov, cmd, log, sanVars, pathVars,
                   apprVars>>

-----------------------------------------------------------------------------
(* generate_tests_with_copilot *)

\* variant: the cleaned text is written whether or not it is usable
ContentFor_NoPlaceholder(f, r) == Strip(Sanitize(r)) \o <<NL>>

\* what is written when the provider printed r for source file f
ContentFor(f, r) ==
    LET c == Sanitize(r)
    IN  IF ~Usable(c)
        THEN Strip(Placeholder(module_import_path(f))) \o <<NL>>
        ELSE Strip(c) \o <<NL>>

\* test_file.write_text(content)
WriteText(dir, p, content) ==
    [q \in (DOMAIN dir) \cup {p} |-> IF q = p THEN content ELSE dir[q]]

\* variant: no command is formed when the help text documents neither flag
CommandForm_NoLegacy(help) ==
    IF help = "--prompt" THEN "gh copilot suggest --prompt"
    ELSE IF help = "-p" THEN "gh copilot suggest -p"
    ELSE "none"

\* the if/elif/else on help_text that picks the provider command
CommandForm(help) ==
    IF help = "--prompt" THEN "gh copilot suggest --prompt"
    ELSE IF help = "-p" THEN "gh copilot suggest -p"
    ELSE "gh copilot suggest"

\* the provider command exits 0 having printed r: sanitize, pick the file
\* name, write, return the path (appended to generated by the caller); the
\* write is logged with the path, whether the cleaned text was usable, and
\* the text written
SuggestOk(f, func, help, r) ==
    LET test_file == get_next_test_filename(f.stem, DOMAIN testsDir)
    IN  /\ cmd' = "none"
        /\ testsDir' = WriteText(testsDir, test_file, ContentFor(f, r))
        /\ generated' = Append(generated, test_file)
        /\ log' = log \o <<Ev("provider", <<f, func>>, 0),
                          Ev("write", <<test_file, Usable(Sanitize(r)),
                                        ContentFor(f, r)>>, 0)>>
        /\ exitCode' = exitCode

\* the provider command exits non-zero: sh(cmd, capture=True) ends the process
SuggestFails(f, func, help, code) ==
    /\ cmd' = CommandForm(help)
    /\ log' = log \o <<Ev("provider", <<f, func>>, code)>>
    /\ Exit(code)
    /\ UNCHANGED <<testsDir, generated>>

-----------------------------------------------------------------------------
(* Phase A: one whole-module request per changed file *)

PhaseAGenerate ==
    /\ pc = "phaseA"
    /\ idx <= Len(changed)
    /\ \E help \in HelpTexts, r \in ProviderTexts :
          SuggestOk(changed[idx], "", help, r)
    /\ idx' = idx + 1
    /\ pc' = IF idx = Len(changed) THEN "validate" ELSE "phaseA"
    /\ UNCHANGED <<tree, preexisting, changed, how, uncovered, fidx, validated,
                   cov, sanVars, pathVars,
                   apprVars>>

PhaseAProviderFails ==
    /\ pc = "phaseA"
    /\ idx <= Len(changed)
    /\ \E help \in HelpTexts, code \in FailCodes :
          SuggestFails(changed[idx], "", help, code)
    /\ UNCHANGED <<tree, preexisting, changed, how, idx, uncovered, fidx,
                   validated, cov, sanVars, pathVars,
                   apprVars>>

-----------------------------------------------------------------------------
(* run_pytest *)

\* coverage data pytest may leave for the files it was asked about
CovOutcomes(files) ==
    {NoCov} \cup
    UNION { { [loadable |-> TRUE, measured |-> M, missing |-> m] :
                m \in [M -> MissingChoices] } : M \in SUBSET files }

Range(sq) == {sq[i] : i \in 1..Len(sq)}

\* variant: the coverage-gap phase is entered whatever pytest returned
RunPytest_IgnoresResult ==
    /\ pc = "validate"
    /\ \E ok \in BOOLEAN :
          /\ validated' = IF ok THEN "pass" ELSE "fail"
          /\ pc' = "phaseB"
          /\ cov' \in CovOutcomes(Range(changed))
          /\ log' = Append(log, Ev("pytest", "", IF ok THEN 0 ELSE 1))
    /\ idx' = 1
    /\ UNCHANGED <<exitCode, tree, testsDir, preexisting, changed, how,
                   generated, uncovered, fidx, cmd, sanVars, pathVars,
                   apprVars>>

RunPytest ==
    /\ pc = "validate"
    /\ \E ok \in BOOLEAN :
          /\ validated' = IF ok THEN "pass" ELSE "fail"
          /\ pc' = IF ok THEN "phaseB" ELSE "rollback"
          /\ IF ok THEN cov' \in CovOutcomes(Range(changed)) ELSE cov' = cov
          /\ log' = Append(log, Ev("pytest", "", IF ok THEN 0 ELSE 1))
    /\ idx' = 1
    /\ UNCHANGED <<exitCode, tree, testsDir, preexisting, changed, how,
                   generated, uncovered, fidx, cmd, sanVars, pathVars,
                   apprVars>>

-----------------------------------------------------------------------------
(* Coverage analysis and Phase B *)

\* importlib.import_module(module_name): the files it can resolve to
ModuleFiles(module_name, tr) ==
    {g \in tr : g.ext = "py" /\ Components(g) = module_name}

\* variant: a function is flagged only for a missing line of its own span
find_uncovered_functions_PerFunction(c, imported, g) ==
    IF ~c.loadable THEN <<>>
    ELSE IF ~imported THEN <<>>
    ELSE LET fns == FunctionsOf(g)
             missed == SelectSeq(fns, LAMBDA fn :
                          g \in c.measured /\
                          \E l \in c.missing[g] : fn.first <= l /\ l <= fn.last)
         IN  [i \in 1..Len(missed) |-> missed[i].name]

\* find_uncovered_functions, the import resolving to g (imported = FALSE:
\* the import raised)
find_uncovered_functions(c, imported, g) ==
    IF ~c.loadable THEN <<>>
    ELSE IF ~imported THEN <<>>
    ELSE LET fns == FunctionsOf(g)
             missed == SelectSeq(fns, LAMBDA fn :
                          g \in c.measured /\ c.missing[g] # {})
         IN  [i \in 1..Len(missed) |-> missed[i].name]

\* after the work on changed[idx]: next file, or the commit step
AfterFile ==
    /\ idx' = IF idx = Len(changed) THEN 1 ELSE idx + 1
    /\ pc' = IF idx = Len(changed) THEN "git_config_name" ELSE "phaseB"

\* variant: the loop over changed does not advance past a file without gaps
FindUncovered_Stuck ==
    /\ pc = "phaseB"
    /\ idx <= Len(changed)
    /\ LET f == changed[idx]
           mods == ModuleFiles(module_import_path(f), tree)
       IN  \/ /\ mods # {}
              /\ \E g \in mods :
                    uncovered' = find_uncovered_functions(cov, TRUE, g)
           \/ uncovered' = find_uncovered_functions(cov, FALSE, f)
    /\ fidx' = 1
    /\ pc' = IF uncovered' = <<>> THEN "phaseB" ELSE "gap"
    /\ idx' = idx
    /\ UNCHANGED <<exitCode, tree, testsDir, preexisting, changed, how,
                   generated, validated, cov, cmd, log, sanVars, pathVars,
                   apprVars>>

\* for f in changed: uncovered = find_uncovered_functions(module_import_path(f))
FindUncovered ==
    /\ pc = "phaseB"
    /\ idx <= Len(changed)
    /\ LET f == changed[idx]
           mods == ModuleFiles(module_import_path(f), tree)
       IN  \/ /\ mods # {}
              /\ \E g \in mods :
                    uncovered' = find_uncovered_functions(cov, TRUE, g)
           \/ uncovered' = find_uncovered_functions(cov, FALSE, f)
    /\ fidx' = 1
    /\ IF uncovered' = <<>> THEN AfterFile ELSE pc' = "gap" /\ idx' = idx
    /\ UNCHANGED <<exitCode, tree, testsDir, preexisting, changed, how,
                   generated, validated, cov, cmd, log, sanVars, pathVars,
                   apprVars>>

GapGenerate ==
    /\ pc = "gap"
    /\ fidx <= Len(uncovered)
    /\ \E help \in HelpTexts, r \in TargetedTexts(uncovered[fidx]) :
          SuggestOk(changed[idx], uncovered[fidx], help, r)
    /\ IF fidx = Len(uncovered)
       THEN AfterFile /\ fidx' = 1
       ELSE pc' = "gap" /\ idx' = idx /\ fidx' = fidx + 1
    /\ UNCHANGED <<tree, preexisting, changed, how, uncovered, validated, cov,
                   sanVars, pathVars,
                   apprVars>>

GapProviderFails ==
    /\ pc = "gap"
    /\ fidx <= Len(uncovered)
    /\ \E help \in HelpTexts, code \in FailCodes :
          SuggestFails(changed[idx], uncovered[fidx], help, code)
    /\ UNCHANGED <<tree, preexisting, changed, how, idx, uncovered, fidx,
                   validated, cov, sanVars, pathVars,
                   apprVars>>

-----------------------------------------------------------------------------
(* git_commit_and_push *)

\* variant: the check flag is not honoured, the script always goes on
ShChecked_Ignores(op, arg, rc, next) ==
    /\ log' = Append(log, Ev(op, arg, rc))
    /\ pc' = next
    /\ exitCode' = exitCode

\* sh(cmd) with check=True, the child exiting rc: a non-zero rc ends the
\* process with that code, otherwise the script goes on at next
ShChecked(op, arg, rc, next) ==
    /\ log' = Append(log, Ev(op, arg, rc))
    /\ IF rc # 0 THEN Exit(rc) ELSE pc' = next /\ exitCode' = exitCode

\* sh(cmd, check=False): whatever the child's rc, the script goes on
ShUnchecked(op, arg, rc, next) ==
    /\ log' = Append(log, Ev(op, arg, rc))
    /\ pc' = next
    /\ exitCode' = exitCode

GitConfigName ==
    /\ pc = "git_config_name"
    /\ \E rc \in {0} \cup FailCodes :
          ShChecked("git", "config user.name", rc, "git_config_email")
    /\ UNCHANGED <<tree, testsDir, preexisting, changed, how, generated, idx,
                   uncovered, fidx, validated, cov, cmd, sanVars, pathVars,
                   apprVars>>

GitConfigEmail ==
    /\ pc = "git_config_email"
    /\ \E rc \in {0} \cup FailCodes :
          ShChecked("git", "config user.email", rc,
                    IF generated = <<>> THEN "git_commit" ELSE "git_add")
    /\ idx' = 1
    /\ UNCHANGED <<tree, testsDir, preexisting, changed, how, generated,
                   uncovered, fidx, validated, cov, cmd, sanVars, pathVars,
                   apprVars>>

\* variant: the staging loop stops after the first file
GitAdd_FirstOnly ==
    /\ pc = "git_add"
    /\ idx <= Len(generated)
    /\ \E rc \in {0} \cup FailCodes :
          ShChecked("git_add", generated[idx], rc, "git_commit")
    /\ idx' = idx + 1
    /\ UNCHANGED <<tree, testsDir, preexisting, changed, how, generated,
                   uncovered, fidx, validated, cov, cmd, sanVars, pathVars,
                   apprVars>>

\* for f in files: sh(git add f)
GitAdd ==
    /\ pc = "git_add"
    /\ idx <= Len(generated)
    /\ \E rc \in {0} \cup FailCodes :
          ShChecked("git_add", generated[idx], rc,
                    IF idx = Len(generated) THEN "git_commit" ELSE "git_add")
    /\ idx' = idx + 1
    /\ UNCHANGED <<tree, testsDir, preexisting, changed, how, generated,
                   uncovered, fidx, validated, cov, cmd, sanVars, pathVars,
                   apprVars>>

\* variant: the commit is run with check=True
GitCommit_Checked ==
    /\ pc = "git_commit"
    /\ \E rc \in {0} \cup FailCodes :
          ShChecked("git", "commit", rc, "git_push")
    /\ UNCHANGED <<tree, testsDir, preexisting, changed, how, generated, idx,
                   uncovered, fidx, validated, cov, cmd, sanVars, pathVars,
                   apprVars>>

\* git commit ... || true, check=False
GitCommit ==
    /\ pc = "git_commit"
    /\ \E rc \in {0} \cup FailCodes :
          ShUnchecked("git", "commit", rc, "git_push")
    /\ UNCHANGED <<tree, testsDir, preexisting, changed, how, generated, idx,
                   uncovered, fidx, validated, cov, cmd, sanVars, pathVars,
                   apprVars>>

\* git push, check=False; the script then ends
GitPush ==
    /\ pc = "git_push"
    /\ \E rc \in {0} \cup FailCodes :
          /\ log' = Append(log, Ev("git", "push", rc))
          /\ Exit(0)
    /\ UNCHANGED <<tree, testsDir, preexisting, changed, how, generated, idx,
                   uncovered, fidx, validated, cov, cmd, sanVars, pathVars,
                   apprVars>>

-----------------------------------------------------------------------------
(* rollback *)

\* variant: every test file of a generated file's stem is removed
Unlinked_AllOfStem(dir, files, i) ==
    [q \in {d \in DOMAIN dir : \A k \in 1..Len(files) : files[k].stem # d.stem}
        |-> dir[q]]

\* variant: the loop stops after the first file
Unlinked_FirstOnly(dir, files, i) ==
    IF files = <<>> \/ files[1] \notin DOMAIN dir THEN dir
    ELSE [q \in (DOMAIN dir) \ {files[1]} |-> dir[q]]

\* the loop of rollback over files, from position i
RECURSIVE Unlinked(_, _, _)
Unlinked(dir, files, i) ==
    IF i > Len(files) THEN dir
    ELSE IF files[i] \in DOMAIN dir
         THEN Unlinked([q \in (DOMAIN dir) \ {files[i]} |-> dir[q]], files, i + 1)
         ELSE Unlinked(dir, files, i + 1)

\* variant: the files are removed but the process reports success
Rollback_ExitsZero ==
    /\ pc = "rollback"
    /\ testsDir' = Unlinked(testsDir, generated, 1)
    /\ log' = Append(log, Ev("rollback", "", 0))
    /\ Exit(0)
    /\ UNCHANGED <<tree, preexisting, changed, how, generated, idx, uncovered,
                   fidx, validated, cov, cmd, sanVars, pathVars,
                   apprVars>>

\* variant: no sys.exit after rollback, the script goes on to the commit step
Rollback_FallsThrough ==
    /\ pc = "rollback"
    /\ testsDir' = Unlinked(testsDir, generated, 1)
    /\ log' = Append(log, Ev("rollback", "", 0))
    /\ pc' = "git_config_name"
    /\ UNCHANGED <<exitCode, tree, preexisting, changed, how, generated, idx,
                   uncovered, fidx, validated, cov, cmd, sanVars, pathVars,
                   apprVars>>

\* the else branch of __main__: rollback(generated); sys.exit(1)
Rollback ==
    /\ pc = "rollback"
    /\ testsDir' = Unlinked(testsDir, generated, 1)
    /\ log' = Append(log, Ev("rollback", "", 0))
    /\ Exit(1)
    /\ UNCHANGED <<tree, preexisting, changed, how, generated, idx, uncovered,
                   fidx, validated, cov, cmd, sanVars, pathVars,
                   apprVars>>

-----------------------------------------------------------------------------
(* The driver *)

Next ==
    \/ GetChangedFiles
    \/ ForceFullScan
    \/ PhaseAGenerate
    \/ PhaseAProviderFails
    \/ RunPytest
    \/ FindUncovered
    \/ GapGenerate
    \/ GapProviderFails
    \/ GitConfigName
    \/ GitConfigEmail
    \/ GitAdd
    \/ GitCommit
    \/ GitPush
    \/ Rollback

Spec == Init /\ [][Next]_vars

\* the script is one sequential process: as long as it has a next statement
\* and the external command it waits for returns, it takes that step
\* the runs checked for termination: the trees without src/pkg/mathops.py
LiveInit == Init /\ PkgMathOps \notin tree

SpecLive == LiveInit /\ [][Next]_vars /\ WF_vars(Next)

-----------------------------------------------------------------------------
(* The sanitizer on its own: lines 128-150 applied to every short text *)

SanAlphabet ==
    {SP, NL, "def", "test_", "#", "cop", "ilot", FENCE, "python", "x", TQ}

Texts(n) == UNION {[1..k -> SanAlphabet] : k \in 0..n}

DriverOff ==
    /\ pc = "off"
    /\ exitCode = -1
    /\ tree = {}
    /\ testsDir = <<>>
    /\ preexisting = {}
    /\ changed = <<>>
    /\ how = "none"
    /\ generated = <<>>
    /\ idx = 1
    /\ uncovered = <<>>
    /\ fidx = 1
    /\ validated = "none"
    /\ cov = NoCov
    /\ cmd = "none"
    /\ log = <<>>

SanInit ==
    /\ DriverOff
    /\ PathIdle
    /\ ApprIdle
    /\ result \in Texts(MaxRaw)
    /\ cleaned = <<>>
    /\ again = <<>>
    /\ stage = "raw"

\* lines 129-146 on the provider text
Clean ==
    /\ stage = "raw"
    /\ cleaned' = Sanitize(result)
    /\ stage' = "cleaned"
    /\ UNCHANGED <<result, again, driverVars, pathVars, apprVars>>

\* the same lines on their own output
CleanAgain ==
    /\ stage = "cleaned"
    /\ again' = Sanitize(cleaned)
    /\ stage' = "again"
    /\ UNCHANGED <<result, cleaned, driverVars, pathVars, apprVars>>

NextSan == Clean \/ CleanAgain

SpecSan == SanInit /\ [][NextSan]_vars

-----------------------------------------------------------------------------
(* The sanitizer on texts made of whole lines: a test suite as a provider
   prints it, with indented body lines, docstrings, prose and noise *)

SampleLines ==
    { <<"def", SP, "test_", "x">>,
      <<SP, SP, SP, SP, "x">>,
      <<SP, SP, SP, SP, "assert", SP, "x">>,
      <<TQ, "x", TQ>>,
      <<SP, SP, SP, SP, TQ, "x", TQ>>,
      <<"x">>,
      <<>>,
      <<"#", SP, "cop", "ilot">>,
      <<SP, SP, SP, SP, "visit", SP, "x">>,
      <<FENCE, "python">> }

LineSeqs(n) == UNION {[1..k -> SampleLines] : k \in 0..n}

SanLinesInit ==
    /\ DriverOff
    /\ PathIdle
    /\ ApprIdle
    /\ \E ls \in LineSeqs(MaxLines) : result = JoinLines(ls)
    /\ cleaned = <<>>
    /\ again = <<>>
    /\ stage = "raw"

SpecSanLines == SanLinesInit /\ [][NextSan]_vars

-----------------------------------------------------------------------------
(* The path resolver on its own: module_import_path applied to locations
   under BASE and outside it *)

DirNames == {"src", "pkg", "tests", "lib"}
Stems == {"mathops", "helper", "src"}
Dirs(n) == UNION {[1..k -> DirNames] : k \in 0..n}

PathInit ==
    /\ DriverOff
    /\ SanIdle
    /\ ApprIdle
    /\ \E u \in BOOLEAN, d \in Dirs(MaxDepth), s \in Stems :
          file_path = [underBase |-> u, file |-> File(d, s, "py")]
    /\ resolved = NoResult
    /\ pstage = "given"

\* the call module_import_path(file_path): it has no raise of its own and
\* catches the ValueError of relative_to, so it returns a string
Resolve ==
    /\ pstage = "given"
    /\ resolved' = [error |-> "none",
                    mod |-> module_import_path_at(file_path.underBase, file_path.file)]
    /\ pstage' = "resolved"
    /\ UNCHANGED <<file_path, driverVars, sanVars, apprVars>>

NextPath == Resolve

SpecPath == PathInit /\ [][NextPath]_vars

-----------------------------------------------------------------------------
(* The bundled web service, tests/server.py: concurrent approve_pipeline
   requests. A coroutine runs without interruption between two awaits, so
   each request takes three steps: the find_one, the code between the two
   awaits, and the update_one with the return. *)

Requests == 1..MaxReq
PipelineIds == {"p1", "gone"}
Users == {"alice", "bob"}
StoredStatuses == {"waiting_approval", "running", "success"}

\* a pipelines document: the fields approve_pipeline reads or sets
Doc(st) ==
    [status |-> st, approval_status |-> "None", approved_by |-> "None",
     completed |-> FALSE]

\* find_one returned None
NoDoc == Doc("None")

ApprInit ==
    /\ DriverOff
    /\ SanIdle
    /\ PathIdle
    /\ \E st \in StoredStatuses : db_pipelines = [id \in {"p1"} |-> Doc(st)]
    /\ approval \in [Requests -> [pipeline_id : PipelineIds, approved : BOOLEAN,
                                   approved_by : Users]]
    /\ apc = [r \in Requests |-> "find_one"]
    /\ pipeline = [r \in Requests |-> NoDoc]
    /\ response = [r \in Requests |-> 0]
    /\ decisions = <<>>

\* pipeline = await db.pipelines.find_one({id: pipeline_id})
FindOne(r) ==
    /\ apc[r] = "find_one"
    /\ pipeline' = [pipeline EXCEPT ![r] =
                       IF approval[r].pipeline_id \in DOMAIN db_pipelines
                       THEN db_pipelines[approval[r].pipeline_id] ELSE NoDoc]
    /\ apc' = [apc EXCEPT ![r] = "check"]
    /\ UNCHANGED <<db_pipelines, approval, response, decisions, driverVars,
                   sanVars, pathVars>>

\* lines 391-409: 404 without a document, 400 unless the status read is
\* waiting_approval, otherwise update_data is built and update_one awaited
Check(r) ==
    /\ apc[r] = "check"
    /\ IF pipeline[r] = NoDoc
       THEN /\ response' = [response EXCEPT ![r] = 404]
            /\ apc' = [apc EXCEPT ![r] = "done"]
       ELSE IF pipeline[r].status # "waiting_approval"
       THEN /\ response' = [response EXCEPT ![r] = 400]
            /\ apc' = [apc EXCEPT ![r] = "done"]
       ELSE /\ response' = response
            /\ apc' = [apc EXCEPT ![r] = "update_one"]
    /\ UNCHANGED <<db_pipelines, approval, pipeline, decisions, driverVars,
                   sanVars, pathVars>>

\* update_one({id: pipeline_id}, {$set: update_data}), then the 200 answer
UpdateOne(r) ==
    /\ apc[r] = "update_one"
    /\ LET id == approval[r].pipeline_id
           new_status == IF approval[r].approved THEN "approved" ELSE "rejected"
       IN  /\ db_pipelines' = [db_pipelines EXCEPT ![id] =
                  [status |-> new_status,
                   approval_status |-> new_status,
                   approved_by |-> approval[r].approved_by,
                   completed |-> IF approval[r].approved THEN @.completed ELSE TRUE]]
           /\ decisions' = Append(decisions,
                  [req |-> r, id |-> id, before |-> db_pipelines[id].status,
                   status |-> new_status])
    /\ response' = [response EXCEPT ![r] = 200]
    /\ apc' = [apc EXCEPT ![r] = "done"]
    /\ UNCHANGED <<approval, pipeline, driverVars, sanVars, pathVars>>

NextAppr == \E r \in Requests : FindOne(r) \/ Check(r) \/ UpdateOne(r)

SpecAppr == ApprInit /\ [][NextAppr]_vars

-----------------------------------------------------------------------------
(* Properties *)

LogIdx == 1..Len(log)

\* a command of git_commit_and_push (not one of change detection)
IsCommitStep(e) ==
    \/ e.op = "git_add"
    \/ e.op = "git" /\ e.arg \in {"config user.name", "config user.email",
                                   "commit", "push"}

\* a command run through sh with check=True that exited non-zero
CheckedFailure(e) ==
    /\ e.rc # 0
    /\ \/ e.op \in {"provider", "git_add"}
       \/ e.op = "git" /\ e.arg \in {"config user.name", "config user.email"}

CommitStepsIn == {i \in LogIdx : IsCommitStep(log[i])}
RollbackIn == {i \in LogIdx : log[i].op = "rollback"}

\* the paths written so far, in order
WrittenPaths ==
    LET w == SelectSeq(log, LAMBDA e : e.op = "write")
    IN  [i \in 1..Len(w) |-> w[i].arg[1]]

C2_NoStrayArtifacts ==
    (pc = "exit" /\ validated = "fail") =>
        /\ \A i \in LogIdx :
              log[i].op = "write" => log[i].arg[1] \notin DOMAIN testsDir
        /\ DOMAIN testsDir = preexisting

C2_Witness ==
    /\ pc = "exit" /\ validated = "fail"
    /\ Len(generated) >= 2
    /\ preexisting # {}

C4_RejectsWithoutTestDef ==
    stage # "raw" =>
        ((\A i \in 1..Len(SplitLines(result)) :
              ~StartsWith(Strip(SplitLines(result)[i]), <<"def", SP, "test_">>))
            => ~Usable(cleaned))

\* C5: sanitizing the sanitized text gives the same text.
C5_Idempotent == stage = "again" => again = cleaned

\* C6 (as stated): a run that reached validation ends with Commit and exit
\* code 0 when pytest passed, with Rollback and a non-zero code when it
\* failed, never with both.
C6_TwoDispositions ==
    /\ ~(CommitStepsIn # {} /\ RollbackIn # {})
    /\ (pc = "exit" /\ validated = "fail") =>
          (exitCode # 0 /\ RollbackIn # {})
    /\ (pc = "exit" /\ validated = "pass") =>
          (exitCode = 0 /\ CommitStepsIn # {})

\* C6 (amended): a run that reached validation ends in one of three ways.
\* pytest failed: Rollback, exit code 1, no commit step. pytest passed:
\* either exit code 0 after the commit step ran through to git push with no
\* check=True command failing, or the exit code of a check=True command
\* (provider request of the coverage-gap phase, git config, git add) that
\* failed and was the last thing done. Commit and Rollback never both happen.
C6_Dispositions ==
    /\ ~(CommitStepsIn # {} /\ RollbackIn # {})
    /\ (pc = "exit" /\ validated = "fail") =>
          (exitCode = 1 /\ RollbackIn # {} /\ CommitStepsIn = {})
    /\ (pc = "exit" /\ validated = "pass") =>
          /\ RollbackIn = {}
          /\ \/ /\ exitCode = 0
                /\ log[Len(log)].op = "git"
                /\ log[Len(log)].arg = "push"
                /\ \A i \in LogIdx : ~CheckedFailure(log[i])
             \/ /\ exitCode # 0
                /\ CheckedFailure(log[Len(log)])
                /\ exitCode = log[Len(log)].rc

C6_Witness ==
    /\ pc = "exit" /\ validated = "pass" /\ exitCode = 0
    /\ Len(generated) >= 2

\* a single-function request of the coverage-gap phase
IsGapRequest(e) == e.op = "provider" /\ e.arg[2] # ""

\* C7: before any single-function request, pytest has run and passed, and
\* before pytest every changed file had its whole-module request answered
\* and written.
C7_PhaseOrder ==
    \A i \in LogIdx :
        IsGapRequest(log[i]) =>
            \E v \in 1..(i - 1) :
                /\ log[v].op = "pytest"
                /\ log[v].rc = 0
                /\ \A k \in 1..Len(changed) :
                      \E j \in 1..(v - 2) :
                          /\ log[j].op = "provider"
                          /\ log[j].arg = <<changed[k], "">>
                          /\ log[j].rc = 0
                          /\ log[j + 1].op = "write"

C7_Witness ==
    /\ Len(changed) >= 2
    /\ \E i \in LogIdx : IsGapRequest(log[i]) /\ log[i].arg[1] = changed[2]

\* C8: a provider command that exits non-zero does not end the process.
C8_ProviderFailureRecovered ==
    \A i \in LogIdx :
        (log[i].op = "provider" /\ log[i].rc # 0) =>
            ~(pc = "exit" /\ i = Len(log) /\ exitCode = log[i].rc)

\* C9 (as stated): whichever command of the commit step fails, the process
\* goes on to git push and exits 0.
C9_EveryStepBestEffort ==
    \A i \in LogIdx :
        (IsCommitStep(log[i]) /\ log[i].rc # 0) =>
            (pc = "exit" =>
                /\ exitCode = 0
                /\ log[Len(log)].op = "git"
                /\ log[Len(log)].arg = "push")

\* C9 (amended): a failing git commit or git push is not propagated: after a
\* failing commit the push is still attempted, and the process exits 0. A
\* failing git config or git add (check=True) ends the process at once with
\* that command's exit code.
C9_CommitPushBestEffort ==
    \A i \in LogIdx :
        (IsCommitStep(log[i]) /\ log[i].rc # 0) =>
            IF log[i].op = "git" /\ log[i].arg \in {"commit", "push"}
            THEN /\ pc = "exit" => exitCode = 0
                 /\ log[i].arg = "commit" =>
                       \/ pc = "git_push"
                       \/ /\ i < Len(log)
                          /\ log[i + 1].op = "git"
                          /\ log[i + 1].arg = "push"
            ELSE /\ i = Len(log)
                 /\ pc = "exit"
                 /\ exitCode = log[i].rc

C9_Witness ==
    /\ pc = "exit" /\ exitCode = 0
    /\ \E i \in LogIdx :
          /\ i < Len(log)
          /\ log[i].op = "git" /\ log[i].arg = "commit" /\ log[i].rc # 0
          /\ log[i + 1].rc # 0

\* C10: after a failing pytest nothing but the rollback happens: no git
\* command of any kind, no provider request, and the exit code is non-zero.
C10_NoVcsOnFailure ==
    \A v \in LogIdx :
        (log[v].op = "pytest" /\ log[v].rc # 0) =>
            /\ \A j \in LogIdx : j > v => log[j].op = "rollback"
            /\ pc \in {"rollback", "exit"}
            /\ pc = "exit" => (exitCode # 0 /\ log[Len(log)].op = "rollback")

C10_Witness ==
    /\ pc = "exit" /\ exitCode = 1
    /\ log[Len(log)].op = "rollback"
    /\ \E p \in Range(generated) : p \notin DOMAIN testsDir

\* a command of change detection
IsDetectionStep(e) == e.op = "git" /\ e.arg \in {"fetch", "merge-base", "diff"}

\* C11: when the filtered set was empty and the full scan of src/ finds no
\* source file either, the process has exited with code 0 having run nothing
\* but change detection: no provider request, no pytest, no commit step, no
\* rollback, no file written, tests/ as it was.
C11_NoWork ==
    (how = "fallback" /\ Rglob(tree) = <<>>) =>
        /\ pc = "exit"
        /\ exitCode = 0
        /\ \A i \in LogIdx : IsDetectionStep(log[i])
        /\ generated = <<>>
        /\ validated = "none"
        /\ testsDir = [p \in preexisting |-> OldText]

C11_Witness ==
    /\ pc = "exit"
    /\ how = "fallback"
    /\ changed = <<>>
    /\ preexisting # {}
    /\ \E i \in LogIdx : log[i].op = "git" /\ log[i].arg = "diff"

\* the answered requests: positions of provider events that exited 0
Answered == {i \in LogIdx : log[i].op = "provider" /\ log[i].rc = 0}

C13_SourceFileInvariant ==
    \A i \in LogIdx :
        log[i].op = "provider" =>
            LET f == log[i].arg[1]
            IN  /\ f \in tree
                /\ f.dir # <<>>
                /\ Head(f.dir) = "src"
                /\ f.ext = "py"
                /\ Head(f.dir) # "tests"

\* C14: the coverage analyzer reports only top-level functions whose own
\* definition spans an unexecuted line, so every targeted request names a
\* function of a measured file with a missing line between its first and its
\* last line.
C14_ExactGapSet ==
    \A i \in LogIdx :
        IsGapRequest(log[i]) =>
            \E g \in cov.measured :
                \E k \in 1..Len(FunctionsOf(g)) :
                    LET fn == FunctionsOf(g)[k]
                    IN  /\ fn.name = log[i].arg[2]
                        /\ \E l \in cov.missing[g] : fn.first <= l /\ l <= fn.last

\* C15 as claimed: for a location that is not rooted at the working directory
\* the path resolver fails with PathOutsideRoot and returns no identifier.
C15_FailsOutsideRoot ==
    (pstage = "resolved" /\ ~file_path.underBase) =>
        resolved.error = "PathOutsideRoot" /\ resolved.mod = <<>>

\* C15 amended: the path resolver never fails; for a location that is not
\* rooted at the working directory it drops the directories and returns
\* src.<stem>, and for a location under it the dotted relative path, with
\* src. put in front unless it already begins with it.
C15_FallsBackToFileName ==
    pstage = "resolved" =>
        /\ resolved.error = "none"
        /\ ~file_path.underBase => resolved.mod = <<"src", file_path.file.stem>>
        /\ file_path.underBase =>
              LET rel == file_path.file.dir \o <<file_path.file.stem>>
              IN  resolved.mod = IF Len(rel) >= 2 /\ rel[1] = "src" THEN rel
                                 ELSE <<"src">> \o rel

C15_Witness ==
    /\ pstage = "resolved"
    /\ ~file_path.underBase
    /\ file_path.file.dir = <<"lib", "pkg">>
    /\ resolved.mod = <<"src", "mathops">>

ProviderCalls == {i \in LogIdx : log[i].op = "provider"}

UncheckedFailure(e) == e.rc # 0 /\ e.op = "git" /\ e.arg \in {"commit", "push"}

\* C17: a command run through sh with check enabled that exits with a
\* non-zero code c is the last effect of the run, and the process has
\* terminated with exit code c; a command run with check disabled that exits
\* non-zero does not end the process with its code: after git commit the
\* push still runs, and after git push the run ends with code 0.
C17_ShellFatal ==
    \A i \in LogIdx :
        /\ CheckedFailure(log[i]) =>
              i = Len(log) /\ pc = "exit" /\ exitCode = log[i].rc
        /\ UncheckedFailure(log[i]) =>
              /\ exitCode \in {-1, 0}
              /\ (log[i].arg = "commit" /\ i = Len(log)) => pc = "git_push"
              /\ (log[i].arg = "push") => i = Len(log) /\ pc = "exit" /\ exitCode = 0

C17_Witness ==
    /\ pc = "exit"
    /\ exitCode = 127
    /\ Len(log) > 1
    /\ log[Len(log)].op = "git_add"
    /\ log[Len(log)].rc = 127
    /\ log[Len(log) - 1].op = "git"

\* the header of the claim: the framework import and the wildcard import of
\* the module under test
Header(mod_path) ==
    <<"import", SP, "pytest", NL, "from", SP>> \o Dotted(mod_path)
        \o <<SP, "import", SP, "*">>

\* C18: a test file written from text without a test-framework import
\* starts with the header that imports pytest and wildcard-imports the
\* module under test by its dotted identifier.
C18_HeaderPrepended ==
    \A i \in LogIdx :
        log[i].op = "write" =>
            LET content == log[i].arg[3]
                f == log[i - 1].arg[1]
            IN  \/ Contains(content, <<"import", SP, "pytest">>)
                     /\ ~StartsWith(content, <<"import", SP, "pytest">>)
                \/ StartsWith(content, Header(module_import_path(f)))

RECURSIVE IsSubseq(_, _)
IsSubseq(a, b) ==
    IF a = <<>> THEN TRUE
    ELSE IF b = <<>> THEN FALSE
    ELSE IF Head(a) = Head(b) THEN IsSubseq(Tail(a), Tail(b))
    ELSE IsSubseq(a, Tail(b))

StripEach(lines) == [i \in 1..Len(lines) |-> Strip(lines[i])]

\* a line the keep rule of the claim covers: not blank, free of noise, and
\* indented or beginning with a triple-quote delimiter
MustKeep(line) ==
    /\ Strip(line) # <<>>
    /\ ~HasNoise(line)
    /\ \/ StartsWith(line, <<SP, SP, SP, SP>>)
       \/ StartsWith(Strip(line), <<TQ>>)
       \/ StartsWith(Strip(line), <<TQ1>>)

\* C19: the lines of the provider text that are not blank, hold no noise
\* substring and are indented or begin with a triple-quote delimiter are all
\* in the sanitized text, in their original order, whether or not they begin
\* with a keyword.
C19_IndentedLinesKept ==
    stage # "raw" =>
        IsSubseq(StripEach(SelectSeq(SplitLines(result), MustKeep)),
                 StripEach(SplitLines(cleaned)))

\* C20: no line of the sanitized text, fence markers removed, holds one of
\* the noise substrings (compared without regard to case).
C20_NoNoiseInOutput ==
    stage # "raw" =>
        \A i \in 1..Len(SplitLines(cleaned)) : ~HasNoise(SplitLines(cleaned)[i])

\* a source file of the tree: a .py file under src/ with no tests component
IsSourceFile(f) ==
    /\ f.ext = "py"
    /\ f.dir # <<>>
    /\ f.dir[1] = "src"
    /\ \A k \in 1..Len(f.dir) : f.dir[k] # "tests"
    /\ f.stem # "tests"

IsEvent(i, o, a) == i \in LogIdx /\ log[i].op = o /\ log[i].arg = a

\* C22: the commit step runs only after pytest passed, and in this order:
\* both identity settings, then git add of every generated file in the order
\* recorded (Phase A and Phase B), then the one git commit, then the one git
\* push right after it; every write of a test file comes before the first
\* command of the commit step.
C22_CommitOrder ==
    LET n == Len(generated)
    IN  /\ \A i \in LogIdx :
              (log[i].op = "git" /\ log[i].arg = "commit") =>
                  /\ validated = "pass"
                  /\ i > n + 2
                  /\ IsEvent(i - n - 2, "git", "config user.name")
                  /\ log[i - n - 2].rc = 0
                  /\ IsEvent(i - n - 1, "git", "config user.email")
                  /\ log[i - n - 1].rc = 0
                  /\ \A k \in 1..n :
                        /\ log[i - n - 1 + k].op = "git_add"
                        /\ log[i - n - 1 + k].arg = generated[k]
                        /\ log[i - n - 1 + k].rc = 0
                  /\ \A j \in LogIdx : log[j].op = "write" => j < i - n - 2
                  /\ \A j \in LogIdx :
                        (log[j].op = "git" /\ log[j].arg = "commit") => j = i
        /\ \A i \in LogIdx :
              (log[i].op = "git" /\ log[i].arg = "push") =>
                  /\ i = Len(log)
                  /\ IsEvent(i - 1, "git", "commit")
        /\ \A i \in LogIdx :
              IsCommitStep(log[i]) =>
                  \A j \in LogIdx :
                      log[j].op \in {"write", "provider", "pytest"} => j < i

C22_Witness ==
    /\ pc = "exit"
    /\ exitCode = 0
    /\ Len(generated) >= 3
    /\ \E i \in LogIdx : IsGapRequest(log[i]) /\ log[i].rc = 0
    /\ IsEvent(Len(log), "git", "push")
    /\ log[Len(log) - 1].rc = 0

\* the names of the functions defined in g, in getmembers order
NamesIn(g) == [k \in 1..Len(FunctionsOf(g)) |-> FunctionsOf(g)[k].name]

C24_PreexistingUntouched ==
    /\ \A p \in preexisting : p \in DOMAIN testsDir /\ testsDir[p] = OldText
    /\ \A i \in LogIdx :
          log[i].op = "write" =>
              /\ log[i].arg[1] \notin preexisting
              /\ \A j \in 1..(i - 1) :
                    log[j].op = "write" => log[j].arg[1] # log[i].arg[1]
    /\ RollbackIn # {} =>
          \A p \in DOMAIN testsDir : p \in preexisting /\ p \notin Range(WrittenPaths)

C24_Witness ==
    /\ pc = "exit"
    /\ RollbackIn # {}
    /\ preexisting = {TestPath("mathops", 0)}
    /\ testsDir = [p \in preexisting |-> OldText]
    /\ \E i \in LogIdx : log[i].op = "write" /\ log[i].arg[1] = TestPath("mathops", 1)

\* the four ways a run ends
NoWorkExit == exitCode = 0 /\ \A i \in LogIdx : IsDetectionStep(log[i])
CommitExit == exitCode = 0 /\ log # <<>> /\ IsEvent(Len(log), "git", "push")
RollbackExit == exitCode = 1 /\ log # <<>> /\ log[Len(log)].op = "rollback"
FatalShellExit ==
    log # <<>> /\ CheckedFailure(log[Len(log)]) /\ exitCode = log[Len(log)].rc

ExactlyOneTerminal ==
    Cardinality({k \in 1..4 : <<NoWorkExit, CommitExit, RollbackExit,
                                FatalShellExit>>[k]}) = 1

\* one provider request per changed file, and one per changed file and
\* uncovered function: no request is repeated
BoundedRequests ==
    \A i, j \in ProviderCalls :
        /\ \E k \in 1..Len(changed) : changed[k] = log[i].arg[1]
        /\ (i < j) => log[i].arg # log[j].arg

\* C25: every run in which the external commands return reaches the end of
\* the script, and it ends in exactly one of four ways: nothing to do (exit
\* 0), commit and push (exit 0), rollback (exit 1), or a command run with
\* check enabled failed (its exit code); no provider request is made twice
\* for the same file and function.
C25_Terminates == <>(pc = "exit" /\ ExactlyOneTerminal /\ BoundedRequests)

C25_Witness ==
    /\ pc = "exit"
    /\ RollbackExit
    /\ Len(generated) >= 2
    /\ preexisting = {}

\* C26: a pipeline is decided at most once: every update approve_pipeline
\* applies finds the stored status waiting_approval, so no pipeline has two
\* decisions and a request that is answered 400 has changed nothing,
\* whatever the interleaving of the requests.
C26_DecidedAtMostOnce ==
    /\ \A k \in 1..Len(decisions) : decisions[k].before = "waiting_approval"
    /\ \A k, l \in 1..Len(decisions) : decisions[k].id = decisions[l].id => k = l
    /\ \A r \in DOMAIN response :
          response[r] = 400 => \A k \in 1..Len(decisions) : decisions[k].req # r

====
